---- MODULE Spec2Model ----
(***************************************************************************)
(* Model of tsdb2::common::Scheduler (scheduler.h / scheduler.cc) together *)
(* with the MockClock it is tested with (mock_clock.cc).                    *)
(*                                                                         *)
(* Every critical section of the scheduler mutex is one action.  A worker  *)
(* that is inside MockClock::AwaitWithDeadline keeps the scheduler mutex   *)
(* across the clock's own critical sections (TimeNow, AddListener,         *)
(* RemoveListener); these are separate steps so that AdvanceTime can       *)
(* interleave with them, and mutex_ names the worker that holds the        *)
(* scheduler mutex meanwhile.                                              *)
(***************************************************************************)
EXTENDS Integers, Sequences, FiniteSets, TLC

\* ---------------------------------------------------------------- bounds
NumWorkers == 2      \* Options::num_workers of the modelled scheduler
NumClients == 2      \* client threads that can block in Stop / BlockingCancel / WaitUntilAllWorkersAsleep
MaxTasks   == 2      \* Schedule* calls over the lifetime of the scheduler
MaxTime    == 2      \* the mock clock is advanced up to this time
MaxPeriod  == 1      \* periods of recurring tasks are 1..MaxPeriod
MaxTasksOneWorker == 3  \* Schedule* calls on the scheduler with a single worker
MaxTasksObserved  == 1  \* Schedule* calls on the scheduler whose callback starts are recorded
MaxTasksClock     == 1  \* Schedule* calls on the scheduler whose clock is set with any argument

\* ------------------------------------------------------ program constants
IDLE     == 0
STARTED  == 1
STOPPING == 2
STOPPED  == 3
kInvalidHandle == 0
FirstHandle == 1

\* absl::InfinitePast(): smaller than every time the clock can show.
InfinitePast == 0 - 1

Workers  == 1..NumWorkers
Clients  == 1..NumClients
MaxHandle == IF MaxTasks >= MaxTasksOneWorker THEN MaxTasks ELSE MaxTasksOneWorker
MaxHandleObserved == IF MaxHandle >= MaxTasksObserved THEN MaxHandle ELSE MaxTasksObserved
Handles  == FirstHandle..(IF MaxHandleObserved >= MaxTasksClock THEN MaxHandleObserved ELSE MaxTasksClock)
Times    == 0..MaxTime
DueTimes == {InfinitePast} \cup Times
Periods  == 0..MaxPeriod        \* 0 stands for std::nullopt (one-shot)

VARIABLES
    state_,       \* Scheduler::state_
    tasks_,       \* Scheduler::tasks_ : handle -> Task (inreg = the node is in the set)
    queue_,       \* Scheduler::queue_ : the heap array, a sequence of task handles
    task_due_,    \* Scheduler::task_due_
    workers_,     \* Scheduler::workers_ : the workers the scheduler owns
    wk,           \* per worker thread: position, sleeping_ flag, locals
    mutex_,       \* 0, or the worker holding Scheduler::mutex_ between two steps
    handle_generator_,  \* Scheduler::Task::handle_generator_ : the next handle
    current_time_,      \* MockClock::current_time_
    listeners_,   \* MockClock::listeners_ : workers whose listener is registered
    adv,          \* the thread inside MockClock::AdvanceTime
    cl,           \* client threads blocked inside a scheduler call
    cancel_true,  \* history: handles for which Cancel/BlockingCancel returned true
    cancel_running, \* history: handles cancelled while a worker was holding the task
    crashed,      \* the process has run into undefined behaviour and died
    obs           \* history: per task, the callback starts seen so far (when observing)

vars == <<state_, tasks_, queue_, task_due_, workers_, wk, mutex_, handle_generator_,
          current_time_, listeners_, adv, cl, cancel_true, cancel_running, crashed, obs>>

\* ------------------------------------------------------------------ Task
NoTask == [inreg |-> FALSE, due |-> 0, period |-> 0, cancelled |-> FALSE, ref |-> 0]

\* Task::Task : a fresh task, not cancelled, no backlink.
NewTask(due, period) ==
    [inreg |-> TRUE, due |-> due, period |-> period, cancelled |-> FALSE, ref |-> 0]

IdleWorker == [pc |-> "none", sleeping |-> FALSE, task |-> 0, deadline |-> 0, cur |-> 0]
IdleClient == [pc |-> "idle", h |-> 0]
IdleAdv    == [pc |-> "idle", time |-> 0, pending |-> {}, stale |-> {}, running |-> 0]

\* The history of a task: the due time it was scheduled with, the clock's time
\* at that call, the number of starts of its callback and the clock's time at
\* the latest start.
\* It is kept only when `on` is set; the number of starts is counted up to
\* MaxTime + 1, the most a claim asks for.
NoHistory(on) ==
    [on |-> on, runs |-> [h \in Handles |-> 0], start |-> [h \in Handles |-> 0],
     due |-> [h \in Handles |-> 0], at |-> [h \in Handles |-> 0]]

\* ScheduleInternal, line 501: task h is created with due time due at clock time now.
TaskScheduled(o, h, due, now) ==
    IF ~o.on THEN o ELSE [o EXCEPT !.due[h] = due, !.at[h] = now]

\* Worker::Run, line 491: the callback of task h is invoked at clock time now.
CallbackStarts(o, h, now) ==
    IF ~o.on THEN o
    ELSE [o EXCEPT !.runs[h] = IF @ <= MaxTime THEN @ + 1 ELSE @, !.start[h] = now]

\* ------------------------------------------------------------- the heap
\* CompareTasks: lhs->due_time() > rhs->due_time()
CompareTasks(ts, a, b) == ts[a].due > ts[b].due

\* std::__push_heap (libstdc++): move the hole up while the parent compares
\* greater than the value, then drop the value.  Indices are 0-based as in
\* the library; Seq index = library index + 1.
RECURSIVE PushHeapFrom(_, _, _, _, _)
PushHeapFrom(ts, q, hole, top, v) ==
    LET parent == (hole - 1) \div 2 IN
    IF hole > top /\ CompareTasks(ts, q[parent + 1], v)
    THEN PushHeapFrom(ts, [q EXCEPT ![hole + 1] = q[parent + 1]], parent, top, v)
    ELSE [q EXCEPT ![hole + 1] = v]

\* std::push_heap(first, first + n): sift the n-th element up within the prefix.
PushHeap(ts, q, n) ==
    IF n <= 1 THEN q ELSE PushHeapFrom(ts, q, n - 1, 0, q[n])

\* std::__adjust_heap (libstdc++): walk the hole down to a leaf along the
\* children that win the comparison, then push the value up from there.
RECURSIVE AdjustDown(_, _, _, _)
AdjustDown(ts, q, child, len) ==
    \* returns <<q, hole>> after the while loop of __adjust_heap
    IF child < (len - 1) \div 2
    THEN LET c2 == 2 * (child + 1)
             c  == IF CompareTasks(ts, q[c2 + 1], q[c2]) THEN c2 - 1 ELSE c2
         IN AdjustDown(ts, [q EXCEPT ![child + 1] = q[c + 1]], c, len)
    ELSE <<q, child>>

AdjustHeap(ts, q, len, v) ==
    LET r  == AdjustDown(ts, q, 0, len)
        q1 == r[1]
        h1 == r[2]
    IN IF len % 2 = 0 /\ h1 = (len - 2) \div 2
       THEN LET c2 == 2 * (h1 + 1)
            IN PushHeapFrom(ts, [q1 EXCEPT ![h1 + 1] = q1[c2]], c2 - 1, 0, v)
       ELSE PushHeapFrom(ts, q1, h1, 0, v)

\* std::pop_heap(begin, end): the root goes to the last slot, the rest is a heap.
PopHeap(ts, q) ==
    LET n == Len(q) IN
    IF n <= 1 THEN q
    ELSE LET v  == q[n]
             q0 == [q EXCEPT ![n] = q[1]]
         IN AdjustHeap(ts, q0, n - 1, v)

\* TaskRef move constructor / move assignment / destructor: after the array
\* has been rearranged every queued task's backlink is its slot, and a task
\* whose TaskRef was destroyed has a null backlink (0).
Relink(ts, q) ==
    [h \in DOMAIN ts |->
        IF \E i \in 1..Len(q) : q[i] = h
        THEN [ts[h] EXCEPT !.ref = CHOOSE i \in 1..Len(q) : q[i] = h]
        ELSE [ts[h] EXCEPT !.ref = 0]]

\* Scheduler::is_task_due
is_task_due(ts, q, now) ==
    IF q = <<>> THEN FALSE
    ELSE ~ts[q[1]].cancelled /\ ts[q[1]].due <= now


InReg(ts, h) == h \in Handles /\ ts[h].inreg

\* tasks_.erase(handle): the node is freed; its memory keeps what was last written.
Erase(ts, h) == [ts EXCEPT ![h].inreg = FALSE]

\* absl::Ceil(d, unit): d rounded up to a multiple of unit.
Ceil(d, unit) == unit * (0 - ((0 - d) \div unit))

Max(a, b) == IF a >= b THEN a ELSE b

\* FetchTask, lines 546-549: the next due time of a periodic task.  A due time
\* of InfinitePast stays InfinitePast (absl::Time arithmetic saturates).
NextDue(due, period, now) ==
    IF due = InfinitePast THEN InfinitePast
    ELSE due + Max(Ceil(now - due, period), period)

\* ------------------------------------------------------------------ Init
\* Scheduler::Scheduler, lines 75-82, with a MockClock at time zero and no
\* thread inside any call.
Constructed ==
    /\ state_ = IDLE
    /\ tasks_ = [h \in Handles |-> NoTask]
    /\ queue_ = <<>>
    /\ task_due_ = FALSE
    /\ workers_ = {}
    /\ wk = [w \in Workers |-> IdleWorker]
    /\ mutex_ = 0
    /\ handle_generator_ = FirstHandle
    /\ current_time_ = 0
    /\ listeners_ = {}
    /\ adv = IdleAdv
    /\ cl = [c \in Clients |-> IdleClient]
    /\ cancel_true = {}
    /\ cancel_running = {}
    /\ crashed = FALSE

Init == Constructed /\ obs = NoHistory(FALSE)

\* A call can take the scheduler mutex: nobody holds it and the process is alive.
CanLock == mutex_ = 0 /\ ~crashed

\* --------------------------------------------------------------- Start
\* A faulty variant of StartHasNoEffect: only a started scheduler is left alone.
StartHasNoEffectWhenStarted == state_ = STARTED

\* Scheduler::Start, lines 430-432: Start returns at once in any state but IDLE.
StartHasNoEffect == state_ # IDLE

\* A faulty variant of CreatedWorkers: the loop stops one worker short.
CreatedWorkersButOne(num_workers) == 1..(num_workers - 1)

\* Scheduler::Start, lines 433-437: the workers the loop creates.
CreatedWorkers(num_workers) == 1..num_workers

\* Scheduler::Start of a scheduler constructed with Options::num_workers = num_workers.
StartWith(num_workers) ==
    /\ CanLock
    /\ IF StartHasNoEffect
       THEN UNCHANGED <<state_, workers_, wk>>
       ELSE /\ workers_' = CreatedWorkers(num_workers)
            /\ wk' = [w \in Workers |->
                        IF w \in CreatedWorkers(num_workers)
                        THEN [IdleWorker EXCEPT !.pc = "fetch"] ELSE IdleWorker]
            /\ state_' = STARTED
    /\ UNCHANGED <<tasks_, queue_, task_due_, mutex_, handle_generator_, current_time_,
                   listeners_, adv, cl, cancel_true, cancel_running, crashed, obs>>

\* Scheduler::Start
Start == StartWith(NumWorkers)

\* ------------------------------------------------------ ScheduleInternal
\* SequenceNumber::GetNext: the generator's value after a call that returned n
\* (strictly increasing values, each returned once).
GetNext(n) == n + 1

\* A faulty variant of TaskHandle: the handle is the size of the registry plus one.
TaskHandleFromRegistrySize(generator) == Cardinality({h \in Handles : tasks_[h].inreg}) + 1

\* Task::handle_, line 232: the handle of a new task is the value the generator returns.
TaskHandle(generator) == generator

\* Scheduler::ScheduleInternal (all Schedule* entry points end here; the due
\* time of ScheduleNow / ScheduleIn is a time read from the clock earlier).
ScheduleInternalUpTo(max_tasks, due_time, period) ==
    /\ CanLock
    /\ handle_generator_ <= max_tasks
    /\ LET h   == TaskHandle(handle_generator_)
           ts1 == [tasks_ EXCEPT ![h] = NewTask(due_time, period)]
           q1  == Append(queue_, h)
           q2  == PushHeap(ts1, q1, Len(q1))
       IN /\ tasks_' = Relink(ts1, q2)
          /\ queue_' = q2
          /\ task_due_' = IF ~task_due_ THEN due_time <= current_time_ ELSE task_due_
          /\ handle_generator_' = GetNext(handle_generator_)
          /\ obs' = TaskScheduled(obs, h, due_time, current_time_)
    /\ UNCHANGED <<state_, workers_, wk, mutex_, current_time_, listeners_, adv, cl,
                   cancel_true, cancel_running, crashed>>

\* Scheduler::ScheduleInternal, with the clients making MaxTasks calls at most.
ScheduleInternal(due_time, period) == ScheduleInternalUpTo(MaxTasks, due_time, period)

\* -------------------------------------------------------- CancelInternal
\* A faulty variant of CancelRemove: the entry stays in the queue and in the
\* registry, only the due time is reset.
CancelRemoveKeepsEntry(ts, q, h) ==
    <<[ts EXCEPT ![h].due = InfinitePast, ![h].cancelled = FALSE], q>>

\* The heap removal of CancelInternal, lines 521-528: <<tasks, queue>> after it.
CancelRemove(ts, q, h) ==
    LET i   == ts[h].ref
        ts2 == [ts EXCEPT ![h].due = InfinitePast]
        q1  == PushHeap(ts2, q, i)
        q2  == PopHeap(ts2, q1)
        q3  == SubSeq(q2, 1, Len(q2) - 1)
    IN <<Erase(Relink(ts2, q3), h), q3>>

\* Scheduler::Cancel: CancelInternal(handle, blocking = false)
Cancel(h) ==
    /\ CanLock
    /\ IF ~InReg(tasks_, h)
       THEN UNCHANGED <<tasks_, queue_, task_due_, cancel_true, cancel_running>>
       ELSE LET ts1 == [tasks_ EXCEPT ![h].cancelled = TRUE] IN
            IF ts1[h].ref # 0
            THEN LET r == CancelRemove(ts1, queue_, h) IN
                 /\ tasks_' = r[1]
                 /\ queue_' = r[2]
                 /\ task_due_' = is_task_due(r[1], r[2], current_time_)
                 /\ cancel_true' = cancel_true \cup {h}
                 /\ UNCHANGED cancel_running
            ELSE /\ tasks_' = ts1
                 /\ cancel_running' = cancel_running \cup {h}
                 /\ UNCHANGED <<queue_, task_due_, cancel_true>>
    /\ UNCHANGED <<state_, workers_, wk, mutex_, handle_generator_, current_time_,
                   listeners_, adv, cl, crashed, obs>>

\* Scheduler::BlockingCancel: CancelInternal(handle, blocking = true), up to
\* the point where it returns or blocks in Await(!tasks_.contains(handle)).
BlockingCancel(c, h) ==
    /\ CanLock
    /\ cl[c].pc = "idle"
    /\ IF ~InReg(tasks_, h)
       THEN UNCHANGED <<tasks_, queue_, task_due_, cancel_true, cancel_running, cl>>
       ELSE LET ts1 == [tasks_ EXCEPT ![h].cancelled = TRUE] IN
            IF ts1[h].ref # 0
            THEN LET r == CancelRemove(ts1, queue_, h) IN
                 /\ tasks_' = r[1]
                 /\ queue_' = r[2]
                 /\ task_due_' = is_task_due(r[1], r[2], current_time_)
                 /\ cancel_true' = cancel_true \cup {h}
                 /\ UNCHANGED cancel_running
                 /\ UNCHANGED cl
            ELSE /\ tasks_' = ts1
                 /\ cl' = [cl EXCEPT ![c] = [pc |-> "bc_wait", h |-> h]]
                 /\ cancel_running' = cancel_running \cup {h}
                 /\ UNCHANGED <<queue_, task_due_, cancel_true>>
    /\ UNCHANGED <<state_, workers_, wk, mutex_, handle_generator_, current_time_,
                   listeners_, adv, crashed, obs>>

\* CancelInternal, lines 532-536: the blocked caller wakes when the handle has
\* left the registry, and returns false.
BlockingCancelReturn(c) ==
    /\ CanLock
    /\ cl[c].pc = "bc_wait"
    /\ ~InReg(tasks_, cl[c].h)
    /\ cl' = [cl EXCEPT ![c] = IdleClient]
    /\ UNCHANGED <<state_, tasks_, queue_, task_due_, workers_, wk, mutex_,
                   handle_generator_, current_time_, listeners_, adv, cancel_true, cancel_running, crashed, obs>>

\* ---------------------------------------------------------------- Stop
\* A faulty variant of StoppedCondition: a state past STARTED is enough.
StoppedConditionPastStarted == state_ > STARTED

\* Scheduler::Stop, lines 449-450: the condition a concurrent caller awaits.
StoppedCondition == state_ = STOPPED

\* A faulty variant of AllJoined: the worker threads are not joined.
AllJoinedSkipped == TRUE

\* Scheduler::Stop, lines 457-459: every worker thread has been joined (a
\* worker that Start did not create is not there to be joined).
AllJoined == \A w \in Workers : wk[w].pc \in {"none", "exited"}

\* A faulty variant of StopBeforeStart: the idle scheduler gets no case of its own.
StopBeforeStartNever == FALSE

\* Scheduler::Stop, lines 445-447: Stop finds the scheduler not started.
StopBeforeStart == state_ < STARTED

\* Scheduler::Stop, first critical section (lines 443-456).
Stop(c) ==
    /\ CanLock
    /\ cl[c].pc = "idle"
    /\ IF StopBeforeStart
       THEN /\ state_' = STOPPED
            /\ UNCHANGED <<workers_, cl>>
       ELSE IF state_ > STARTED
       THEN /\ IF StoppedCondition
               THEN UNCHANGED cl
               ELSE cl' = [cl EXCEPT ![c] = [pc |-> "stop_wait", h |-> 0]]
            /\ UNCHANGED <<state_, workers_>>
       ELSE /\ workers_' = {}
            /\ state_' = STOPPING
            /\ cl' = [cl EXCEPT ![c] = [pc |-> "stop_join", h |-> 0]]
    /\ UNCHANGED <<tasks_, queue_, task_due_, wk, mutex_, handle_generator_, current_time_,
                   listeners_, adv, cancel_true, cancel_running, crashed, obs>>

\* Scheduler::Stop, lines 457-465: every worker thread has been joined; the
\* queue and the registry are cleared and the state becomes STOPPED.
StopJoined(c) ==
    /\ CanLock
    /\ cl[c].pc = "stop_join"
    /\ AllJoined
    /\ queue_' = <<>>
    /\ tasks_' = [h \in Handles |-> NoTask]
    /\ state_' = STOPPED
    /\ cl' = [cl EXCEPT ![c] = IdleClient]
    /\ UNCHANGED <<task_due_, workers_, wk, mutex_, handle_generator_, current_time_,
                   listeners_, adv, cancel_true, cancel_running, crashed, obs>>

\* Scheduler::Stop, lines 449-451: a concurrent caller wakes once the state is STOPPED.
StopWaitReturn(c) ==
    /\ CanLock
    /\ cl[c].pc = "stop_wait"
    /\ StoppedCondition
    /\ cl' = [cl EXCEPT ![c] = IdleClient]
    /\ UNCHANGED <<state_, tasks_, queue_, task_due_, workers_, wk, mutex_,
                   handle_generator_, current_time_, listeners_, adv, cancel_true, cancel_running, crashed, obs>>

\* ------------------------------------------------ WaitUntilAllWorkersAsleep
\* A faulty variant of AllAsleepCondition: the state is not part of it.
AllAsleepConditionWithoutState == (\A w \in workers_ : wk[w].sleeping) /\ ~task_due_

\* The condition of WaitUntilAllWorkersAsleep, lines 470-474.
AllAsleepCondition ==
    state_ # STARTED \/ ((\A w \in workers_ : wk[w].sleeping) /\ ~task_due_)

\* Scheduler::WaitUntilAllWorkersAsleep: it returns at once or blocks in Await; the
\* status is CancelledError when state_ > STARTED at that moment, else OkStatus.
WaitUntilAllWorkersAsleep(c) ==
    /\ CanLock
    /\ cl[c].pc = "idle"
    /\ IF AllAsleepCondition
       THEN UNCHANGED cl
       ELSE cl' = [cl EXCEPT ![c] = [pc |-> "wu_wait", h |-> 0]]
    /\ UNCHANGED <<state_, tasks_, queue_, task_due_, workers_, wk, mutex_,
                   handle_generator_, current_time_, listeners_, adv, cancel_true, cancel_running, crashed, obs>>

\* WaitUntilAllWorkersAsleep, lines 475-479: the status returned when the wait is over.
WaitUntilAllWorkersAsleepStatus == IF state_ > STARTED THEN "Cancelled" ELSE "Ok"

\* WaitUntilAllWorkersAsleep: the blocked caller wakes and returns.
WaitUntilAllWorkersAsleepReturn(c) ==
    /\ CanLock
    /\ cl[c].pc = "wu_wait"
    /\ AllAsleepCondition
    /\ cl' = [cl EXCEPT ![c] = IdleClient]
    /\ UNCHANGED <<state_, tasks_, queue_, task_due_, workers_, wk, mutex_,
                   handle_generator_, current_time_, listeners_, adv, cancel_true, cancel_running, crashed, obs>>

\* ------------------------------------------------------------ FetchTask
\* A faulty variant of LoopTop: the sleeping flag is not reset when FetchTask
\* returns AbortedError.
LoopTopAbortedAsleep(ts, q) ==
    IF ~(state_ > STARTED \/ q # <<>>)
    THEN [pc |-> "await_queue", sleeping |-> TRUE, task |-> 0, deadline |-> 0, cur |-> 0]
    ELSE IF state_ > STARTED
    THEN [pc |-> "exited", sleeping |-> TRUE, task |-> 0, deadline |-> 0, cur |-> 0]
    ELSE [pc |-> "awd_add", sleeping |-> TRUE, task |-> 0,
          deadline |-> ts[q[1]].due, cur |-> current_time_]

\* FetchTask, lines 563-568, entered with the mutex held: the worker blocks in
\* Await(queue_not_empty_condition), or returns Aborted, or enters
\* AwaitWithDeadline, where it reads the clock (mock_clock.cc line 41) with the
\* head's due time as the deadline.  The SleepScope of line 543 has set the
\* sleeping flag and resets it when FetchTask returns.
LoopTop(ts, q) ==
    IF ~(state_ > STARTED \/ q # <<>>)
    THEN [pc |-> "await_queue", sleeping |-> TRUE, task |-> 0, deadline |-> 0, cur |-> 0]
    ELSE IF state_ > STARTED
    THEN [pc |-> "exited", sleeping |-> FALSE, task |-> 0, deadline |-> 0, cur |-> 0]
    ELSE [pc |-> "awd_add", sleeping |-> TRUE, task |-> 0,
          deadline |-> ts[q[1]].due, cur |-> current_time_]

\* The worker keeps the mutex after LoopTop exactly when it is inside AwaitWithDeadline.
Holder(w, wrec) == IF wrec.pc = "awd_add" \/ wrec.pc = "awd_remove" THEN w ELSE 0

\* A faulty variant of IsRequeued: the cancelled flag is not consulted.
IsRequeuedIgnoringCancelled(ts, last) == last # 0 /\ ts[last].period > 0

\* FetchTask, lines 543-544: the task the worker has just run goes back to the
\* queue when it is periodic and not cancelled (0 stands for a null last_task).
IsRequeued(ts, last) == last # 0 /\ ~ts[last].cancelled /\ ts[last].period > 0

\* FetchTask, lines 542-556 and on: the worker takes the mutex, sets its
\* sleeping flag, re-queues or erases the task it has just run.
FetchTask(w) ==
    /\ CanLock
    /\ wk[w].pc = "fetch"
    /\ LET last == wk[w].task
           requeue == IsRequeued(tasks_, last)
           ts1 == IF last = 0 THEN tasks_
                  ELSE IF requeue
                  THEN [tasks_ EXCEPT ![last].due =
                           NextDue(tasks_[last].due, tasks_[last].period, current_time_)]
                  ELSE Erase(tasks_, last)
           q1  == IF requeue THEN PushHeap(ts1, Append(queue_, last), Len(queue_) + 1)
                  ELSE queue_
           ts2 == IF requeue THEN Relink(ts1, q1) ELSE ts1
           wrec == LoopTop(ts2, q1)
       IN /\ tasks_' = ts2
          /\ queue_' = q1
          /\ task_due_' = IF requeue THEN is_task_due(ts2, q1, current_time_) ELSE task_due_
          /\ wk' = [wk EXCEPT ![w] = wrec]
          /\ mutex_' = Holder(w, wrec)
    /\ UNCHANGED <<state_, workers_, handle_generator_, current_time_, listeners_, adv, cl,
                   cancel_true, cancel_running, crashed, obs>>

\* FetchTask, line 564: the worker blocked in Await(queue_not_empty_condition) wakes.
AwaitQueue(w) ==
    /\ CanLock
    /\ wk[w].pc = "await_queue"
    /\ state_ > STARTED \/ queue_ # <<>>
    /\ LET wrec == LoopTop(tasks_, queue_)
       IN wk' = [wk EXCEPT ![w] = wrec] /\ mutex_' = Holder(w, wrec)
    /\ UNCHANGED <<state_, tasks_, queue_, task_due_, workers_, handle_generator_,
                   current_time_, listeners_, adv, cl, cancel_true, cancel_running, crashed, obs>>

\* FetchTask, lines 561-562: task_due_condition, the condition the worker
\* passes to AwaitWithDeadline; mock_clock.cc line 48 returns its value.
TaskDueCondition == state_ > STARTED \/ task_due_

\* A faulty variant of DeadlineCondition: the deadline itself does not count as reached.
DeadlineConditionStrict(w) ==
    wk[w].cur > wk[w].deadline \/ TaskDueCondition

\* The condition the worker waits on inside AwaitWithDeadline (mock_clock.cc
\* line 47) with task_due_condition as its condition.
DeadlineCondition(w) ==
    wk[w].cur >= wk[w].deadline \/ TaskDueCondition

\* MockClock::AwaitWithDeadline, lines 46-47: the listener is registered and the
\* worker waits; it keeps the mutex when the condition is true already.
AddListener(w) ==
    /\ ~crashed
    /\ wk[w].pc = "awd_add"
    /\ mutex_ = w
    /\ listeners_' = listeners_ \cup {w}
    /\ IF DeadlineCondition(w)
       THEN wk' = [wk EXCEPT ![w].pc = "awd_remove"] /\ UNCHANGED mutex_
       ELSE wk' = [wk EXCEPT ![w].pc = "awd_wait"] /\ mutex_' = 0
    /\ UNCHANGED <<state_, tasks_, queue_, task_due_, workers_, handle_generator_,
                   current_time_, adv, cl, cancel_true, cancel_running, crashed, obs>>

\* A faulty variant of AbortedAfterDeadline: the state is not looked at.
AbortedAfterDeadlineNever == FALSE

\* FetchTask, lines 569-571: the worker returns AbortedError after the deadline wait.
AbortedAfterDeadline == state_ > STARTED

\* FetchTask, lines 569-581, after AwaitWithDeadline has returned: Aborted when
\* the scheduler is stopping, else the head is popped; a popped cancelled task
\* is erased and the loop continues, any other is returned to Worker::Run.
\* Popping the empty vector is undefined behaviour (back() and pop_back() of an
\* empty std::vector): the TaskRef destructor dereferences what lies before
\* the buffer and the process dies.
AfterWait(w) ==
    IF AbortedAfterDeadline
    THEN /\ wk' = [wk EXCEPT ![w] = [IdleWorker EXCEPT !.pc = "exited"]]
         /\ mutex_' = 0
         /\ UNCHANGED <<tasks_, queue_, task_due_, crashed, obs>>
    ELSE IF queue_ = <<>>
    THEN /\ crashed' = TRUE
         /\ UNCHANGED <<wk, mutex_, tasks_, queue_, task_due_, obs>>
    ELSE LET q1   == PopHeap(tasks_, queue_)
             task == q1[Len(q1)]
             q2   == SubSeq(q1, 1, Len(q1) - 1)
             ts1  == Relink(tasks_, q2)
             ts2  == IF ts1[task].cancelled THEN Erase(ts1, task) ELSE ts1
             wrec == IF ts1[task].cancelled THEN LoopTop(ts2, q2)
                     ELSE [IdleWorker EXCEPT !.pc = "run", !.task = task]
         IN /\ tasks_' = ts2
            /\ queue_' = q2
            /\ task_due_' = is_task_due(ts1, q2, current_time_)
            /\ wk' = [wk EXCEPT ![w] = wrec]
            /\ mutex_' = Holder(w, wrec)
            /\ obs' = IF ts1[task].cancelled THEN obs
                      ELSE CallbackStarts(obs, task, current_time_)
            /\ UNCHANGED crashed

\* ~ListenerHandle -> MockClock::RemoveListener: the listener leaves listeners_.
\* A listener that an AdvanceTime in progress has already swapped out is still
\* run later, after the AwaitWithDeadline call it belongs to has returned.
LeaveWait(w) ==
    /\ listeners_' = listeners_ \ {w}
    /\ adv' = IF w \in adv.pending THEN [adv EXCEPT !.stale = @ \cup {w}] ELSE adv

\* The worker blocked in AwaitWithDeadline wakes with its condition true.
AwaitDeadline(w) ==
    /\ CanLock
    /\ wk[w].pc = "awd_wait"
    /\ DeadlineCondition(w)
    /\ LeaveWait(w)
    /\ AfterWait(w)
    /\ UNCHANGED <<state_, workers_, handle_generator_, current_time_, cl, cancel_true,
                   cancel_running>>

\* AwaitWithDeadline returns without having blocked.
RemoveListener(w) ==
    /\ ~crashed
    /\ wk[w].pc = "awd_remove"
    /\ mutex_ = w
    /\ LeaveWait(w)
    /\ AfterWait(w)
    /\ UNCHANGED <<state_, workers_, handle_generator_, current_time_, cl, cancel_true,
                   cancel_running>>

\* Worker::Run, line 491: the callback of the fetched task returns.
RunDone(w) ==
    /\ ~crashed
    /\ wk[w].pc = "run"
    /\ wk' = [wk EXCEPT ![w].pc = "fetch"]
    /\ UNCHANGED <<state_, tasks_, queue_, task_due_, workers_, mutex_, handle_generator_,
                   current_time_, listeners_, adv, cl, cancel_true, cancel_running, crashed, obs>>

\* ------------------------------------------------------------ MockClock
\* A faulty variant of AdvanceTime: the listeners are run inside the clock's
\* critical section, each taking the scheduler mutex.
AdvanceTimeRunningListenersLocked(delta) ==
    /\ CanLock
    /\ adv.pc = "idle"
    /\ current_time_ + delta \in Times
    /\ current_time_' = current_time_ + delta
    /\ listeners_' = {}
    /\ wk' = [w \in Workers |->
                IF w \in listeners_ THEN [wk[w] EXCEPT !.cur = current_time_ + delta]
                ELSE wk[w]]
    /\ UNCHANGED <<state_, tasks_, queue_, task_due_, workers_, mutex_, adv,
                   handle_generator_, cl, cancel_true, cancel_running, crashed, obs>>

\* MockClock::AdvanceTime, lines 67-71: the time moves and the registered
\* listeners are swapped out of listeners_ into a local set.
AdvanceTime(delta) ==
    /\ ~crashed
    /\ adv.pc = "idle"
    /\ current_time_ + delta \in Times
    /\ current_time_' = current_time_ + delta
    /\ listeners_' = {}
    /\ IF listeners_ = {}
       THEN adv' = IdleAdv
       ELSE /\ adv' = [pc |-> "notify", time |-> current_time_ + delta,
                       pending |-> listeners_, stale |-> {}, running |-> 0]
    /\ UNCHANGED <<state_, tasks_, queue_, task_due_, workers_, wk, mutex_,
                   handle_generator_, cl, cancel_true, cancel_running, crashed, obs>>

\* A faulty variant of TimeCanBeSet: the new time has to be later.
TimeCanBeSetIfLater(time) == time > current_time_

\* MockClock::SetTime, line 55: CHECK_GE(time, current_time_).
TimeCanBeSet(time) == time >= current_time_

\* A faulty variant of SetTime: the listeners are run inside the clock's
\* critical section, each taking the scheduler mutex.
SetTimeRunningListenersLocked(time) ==
    /\ CanLock
    /\ adv.pc = "idle"
    /\ IF ~TimeCanBeSet(time)
       THEN /\ crashed' = TRUE
            /\ UNCHANGED <<current_time_, listeners_, wk>>
       ELSE /\ current_time_' = time
            /\ listeners_' = {}
            /\ wk' = [w \in Workers |->
                        IF w \in listeners_ THEN [wk[w] EXCEPT !.cur = time] ELSE wk[w]]
            /\ UNCHANGED crashed
    /\ UNCHANGED <<state_, tasks_, queue_, task_due_, workers_, mutex_, adv,
                   handle_generator_, cl, cancel_true, cancel_running, obs>>

\* MockClock::SetTime, lines 52-58: the check fails and the process is halted,
\* or the time is set and the registered listeners are swapped out of
\* listeners_ into a local set.
SetTime(time) ==
    /\ ~crashed
    /\ adv.pc = "idle"
    /\ IF ~TimeCanBeSet(time)
       THEN /\ crashed' = TRUE
            /\ UNCHANGED <<current_time_, listeners_, adv>>
       ELSE /\ current_time_' = time
            /\ listeners_' = {}
            /\ adv' = IF listeners_ = {} THEN IdleAdv
                      ELSE [pc |-> "notify", time |-> time, pending |-> listeners_,
                            stale |-> {}, running |-> 0]
            /\ UNCHANGED crashed
    /\ UNCHANGED <<state_, tasks_, queue_, task_due_, workers_, wk, mutex_,
                   handle_generator_, cl, cancel_true, cancel_running, obs>>

\* MockClock::AdvanceTime, lines 72-74, one listener (mock_clock.cc lines 42-45):
\* it takes the scheduler mutex and stores the new time in the waiter's local
\* current_time.  When the waiter has left AwaitWithDeadline the store goes to
\* a dead stack slot (undefined behaviour): it is lost, or it lands in the
\* current_time of the same worker's next AwaitWithDeadline call.
Notify(l, lands) ==
    /\ CanLock
    /\ adv.pc = "notify"
    /\ l \in adv.pending
    /\ IF l \in adv.stale
       THEN IF lands /\ wk[l].pc = "awd_wait"
            THEN wk' = [wk EXCEPT ![l].cur = adv.time]
            ELSE UNCHANGED wk
       ELSE wk' = [wk EXCEPT ![l].cur = adv.time]
    /\ IF adv.pending = {l}
       THEN adv' = IdleAdv
       ELSE /\ adv' = [adv EXCEPT !.pending = @ \ {l}, !.stale = @ \ {l}]
    /\ UNCHANGED <<state_, tasks_, queue_, task_due_, workers_, mutex_, handle_generator_,
                   current_time_, listeners_, cl, cancel_true, cancel_running, crashed, obs>>

\* MockClock::TimeListener::Run of the later revision of mock_clock.h, the
\* statement `absl::MutexLock{mutex_};`: the lock object is an unnamed
\* temporary, so the waiter's mutex is acquired and released again within the
\* statement.  The listeners are run one after the other.
TimeListenerLock(l) ==
    /\ CanLock
    /\ adv.pc = "notify"
    /\ adv.running = 0
    /\ l \in adv.pending
    /\ adv' = [adv EXCEPT !.running = l]
    /\ UNCHANGED <<state_, tasks_, queue_, task_due_, workers_, wk, mutex_, handle_generator_,
                   current_time_, listeners_, cl, cancel_true, cancel_running, crashed, obs>>

\* TimeListener::Run, the statement `current_time_ = current_time;`: the store
\* into the time the waiter's condition reads.  The listener owns that time,
\* so the store of a listener whose waiter has left is not seen by anyone.
TimeListenerStore(l) ==
    /\ ~crashed
    /\ adv.pc = "notify"
    /\ adv.running = l
    /\ l \in adv.pending
    /\ wk' = IF l \in adv.stale THEN wk ELSE [wk EXCEPT ![l].cur = adv.time]
    /\ IF adv.pending = {l}
       THEN adv' = IdleAdv
       ELSE adv' = [adv EXCEPT !.pending = @ \ {l}, !.stale = @ \ {l}, !.running = 0]
    /\ UNCHANGED <<state_, tasks_, queue_, task_due_, workers_, mutex_, handle_generator_,
                   current_time_, listeners_, cl, cancel_true, cancel_running, crashed, obs>>

\* ------------------------------------------------------------------ Next
\* The calls of the client threads `clients` other than Start, and the steps
\* of the workers and of the clock; the clients schedule max_tasks tasks at
\* most.  (A second Stop that waits for the first is in Next below.)
Calls(max_tasks, clients) ==
    \/ \E d \in DueTimes, p \in Periods : ScheduleInternalUpTo(max_tasks, d, p)
    \/ \E h \in kInvalidHandle..max_tasks : Cancel(h)
    \/ \E c \in clients, h \in kInvalidHandle..max_tasks : BlockingCancel(c, h)
    \/ \E c \in clients : BlockingCancelReturn(c)
    \/ \E c \in clients : Stop(c)
    \/ \E c \in clients : StopJoined(c)
    \/ \E c \in clients : WaitUntilAllWorkersAsleep(c)
    \/ \E c \in clients : WaitUntilAllWorkersAsleepReturn(c)
    \/ \E w \in Workers : FetchTask(w)
    \/ \E w \in Workers : AwaitQueue(w)
    \/ \E w \in Workers : AddListener(w)
    \/ \E w \in Workers : AwaitDeadline(w)
    \/ \E w \in Workers : RemoveListener(w)
    \/ \E w \in Workers : RunDone(w)
    \/ \E d \in 1..MaxTime : AdvanceTime(d)

\* The listener that AdvanceTime or SetTime runs is the lambda of mock_clock.cc.
Listeners == \E l \in Workers, lands \in BOOLEAN : Notify(l, lands)

Next ==
    \/ Start
    \/ Calls(MaxTasks, Clients)
    \/ Listeners
    \/ \E c \in Clients : StopWaitReturn(c)

Spec == Init /\ [][Next]_vars

\* ------------------------------------------------- a single worker thread
\* The scheduler constructed with Options::num_workers = 1 and used by one
\* client thread (so that no Stop call finds another one in progress).
NextOneWorker == StartWith(1) \/ Calls(MaxTasksOneWorker, {1}) \/ Listeners

SpecOneWorker == Init /\ [][NextOneWorker]_vars

\* ------------------------------------------ the callback starts recorded
\* The scheduler of Spec with the history of its tasks kept.
InitObserved == Constructed /\ obs = NoHistory(TRUE)

NextObserved ==
    \/ Start
    \/ Calls(MaxTasksObserved, Clients)
    \/ Listeners
    \/ \E c \in Clients : StopWaitReturn(c)

SpecObserved == InitObserved /\ [][NextObserved]_vars

\* ------------------------------------------- the clock set with any argument
\* The scheduler of Spec with a MockClock whose SetTime and AdvanceTime are
\* called with any argument: times before the current one, zero and negative
\* durations.
NextClock ==
    \/ Start
    \/ Calls(MaxTasksClock, Clients)
    \/ Listeners
    \/ \E c \in Clients : StopWaitReturn(c)
    \/ \E d \in (0 - MaxTime)..0 : AdvanceTime(d)
    \/ \E t \in Times : SetTime(t)

SpecClock == Init /\ [][NextClock]_vars

\* ------------------------------------- the listener of the later revision
\* The scheduler of Spec with a MockClock whose listeners are TimeListener
\* objects (the later revision of mock_clock.h) instead of the lambda.
NextTimeListener ==
    \/ Start
    \/ Calls(MaxTasksClock, Clients)
    \/ \E c \in Clients : StopWaitReturn(c)
    \/ \E l \in Workers : TimeListenerLock(l)
    \/ \E l \in Workers : TimeListenerStore(l)

SpecTimeListener == Init /\ [][NextTimeListener]_vars

\* ===================================================================== claims
\* A worker is handed a task: FetchTask returns it to Worker::Run in this step.
Fetched(w) == wk[w].pc # "run" /\ wk'[w].pc = "run"

\* C1: no callback begins executing before its task's due time: whenever
\* FetchTask hands a task to a worker, the clock's time is >= the task's due time.
C1_NotBeforeDue ==
    [][\A w \in Workers : Fetched(w) => tasks_'[wk'[w].task].due <= current_time_']_vars

\* ------------------------------------------------------- shared vocabulary
InQueue(q, h) == \E i \in 1..Len(q) : q[i] = h

\* The task at the head of the queue is a live, non-cancelled task that is due.
HeadDue ==
    /\ queue_ # <<>>
    /\ InReg(tasks_, queue_[1])
    /\ ~tasks_[queue_[1]].cancelled
    /\ tasks_[queue_[1]].due <= current_time_

\* Worker w is running the callback of task h.
Running(w, h) == wk[w].pc = "run" /\ wk[w].task = h

\* A step of a thread that is already inside the scheduler or the clock: a
\* worker, the thread inside AdvanceTime, or a blocked client call returning.
Internal ==
    \/ \E w \in Workers : FetchTask(w) \/ AwaitQueue(w) \/ AddListener(w)
                          \/ AwaitDeadline(w) \/ RemoveListener(w) \/ RunDone(w)
    \/ \E l \in Workers, lands \in BOOLEAN : Notify(l, lands)
    \/ \E c \in Clients : BlockingCancelReturn(c) \/ StopJoined(c) \/ StopWaitReturn(c)
                          \/ WaitUntilAllWorkersAsleepReturn(c)

\* C2: preemption. A task is at the head of the queue that is due now, and
\* every worker is blocked in the deadline wait it began for a later head
\* (its deadline is still in the future), the clock not being advanced at the
\* moment: then some worker's wait is released, so that the new head is
\* executed at its own due time.
C2_PreemptingHeadWakesWorker ==
    ( /\ state_ = STARTED /\ ~crashed /\ adv.pc = "idle"
      /\ HeadDue
      /\ \A w \in Workers : wk[w].pc = "awd_wait" /\ current_time_ < wk[w].deadline )
    => \E w \in Workers : DeadlineCondition(w)

\* C3: while STARTED, a queued non-cancelled task that is due is eventually
\* executed. Stated on finite runs: when no thread inside the scheduler or the
\* clock can take a step any more, no due task is left at the head of the queue.
C3_DueTaskIsRun ==
    (state_ = STARTED /\ ~crashed /\ ~ENABLED Internal) => ~HeadDue

\* WaitUntilAllWorkersAsleep can return OkStatus to client c in this state.
ReturnsOk(c) ==
    /\ CanLock
    /\ cl[c].pc \in {"idle", "wu_wait"}
    /\ AllAsleepCondition
    /\ ~(state_ > STARTED)

\* Worker w is blocked in one of FetchTask's waits and its condition is false.
Asleep(w) ==
    \/ wk[w].pc = "await_queue" /\ ~(state_ > STARTED \/ queue_ # <<>>)
    \/ wk[w].pc = "awd_wait" /\ ~DeadlineCondition(w)

\* C4: with a clock that is not advanced concurrently, when
\* WaitUntilAllWorkersAsleep returns OkStatus on a started scheduler, all due
\* tasks have been processed: no queued non-cancelled task is due. (Taken
\* where every worker is really blocked, its wait condition false, so that no
\* worker is on its way to a due task.)
C4_AsleepMeansAllDueProcessed ==
    \A c \in Clients :
        ( /\ ReturnsOk(c) /\ state_ = STARTED /\ adv.pc = "idle"
          /\ \A w \in Workers : Asleep(w) )
        => \A i \in 1..Len(queue_) :
               ~(InReg(tasks_, queue_[i]) /\ ~tasks_[queue_[i]].cancelled
                 /\ tasks_[queue_[i]].due <= current_time_)

\* Handle h is queued and its callback is not being executed.
QueuedNotStarted(h) ==
    /\ InReg(tasks_, h)
    /\ InQueue(queue_, h)
    /\ \A w \in Workers : ~Running(w, h)

\* This step is a Cancel(h) or BlockingCancel(h) call that returns true.
CancelReturnsTrue(h) ==
    /\ Cancel(h) \/ \E c \in Clients : BlockingCancel(c, h)
    /\ h \in cancel_true' /\ h \notin cancel_true

\* C5: Cancel(h) and BlockingCancel(h) return true if and only if the task
\* with handle h is in the queue and has not started, and then its queue entry
\* and its registry entry are removed; for a handle that is not in the registry
\* (unknown or completed) the queue, the registry and task_due_ are unchanged.
C5_CancelResult ==
    [][\A h \in kInvalidHandle..MaxTasks :
        (Cancel(h) \/ \E c \in Clients : BlockingCancel(c, h))
        => /\ CancelReturnsTrue(h) <=> QueuedNotStarted(h)
           /\ QueuedNotStarted(h) => ~InQueue(queue_', h) /\ ~InReg(tasks_', h)
           /\ ~InReg(tasks_, h) => UNCHANGED <<queue_, tasks_, task_due_>>]_vars
C7_CancelWhileRunning ==
    [][\A h \in Handles :
        /\ ((\E w \in Workers : Running(w, h)) /\ Cancel(h))
           => /\ h \notin cancel_true'
              /\ tasks_'[h].cancelled
              /\ InReg(tasks_', h)
              /\ wk' = wk /\ cl' = cl
        /\ \A w \in Workers :
              (wk[w].task = h /\ tasks_[h].cancelled /\ FetchTask(w))
              => ~InReg(tasks_', h) /\ ~InQueue(queue_', h)
        /\ \A w \in Workers :
              (Fetched(w) /\ wk'[w].task = h) => h \notin cancel_running]_vars

\* Cancel has returned false for a periodic task whose callback is still
\* running (no caller is blocked, so the call was not BlockingCancel).
C7_Witness ==
    \E h \in cancel_running :
        /\ tasks_[h].period > 0
        /\ tasks_[h].cancelled
        /\ \E w \in Workers : Running(w, h)
        /\ \A c \in Clients : cl[c].pc # "bc_wait"
\* The callback of task h, which a worker was executing, has completed: the
\* worker is on its way into FetchTask with h as its last task, or has
\* already erased h there.
Completed(h) ==
    \/ ~InReg(tasks_, h)
    \/ \E w \in Workers : wk[w].pc = "fetch" /\ wk[w].task = h

\* A caller of BlockingCancel is blocked and the callback it waits for has completed.
BlockedAfterCompletion(c) == cl[c].pc = "bc_wait" /\ Completed(cl[c].h)

\* C8: BlockingCancel(h) called while the callback of h is executing does not
\* return before the callback has completed: when the blocked call returns, h
\* is absent from the registry and no worker is running its callback. And it
\* does return: as long as a caller is blocked and the callback it waits for
\* has completed, some thread inside the scheduler can take a step.
C8_BlockingCancelWaits ==
    /\ [][\A c \in Clients :
            (cl[c].pc = "bc_wait" /\ BlockingCancelReturn(c))
            => /\ ~InReg(tasks_', cl[c].h)
               /\ \A w \in Workers : ~Running(w, cl[c].h) /\ wk'[w] = wk[w]]_vars
    /\ [](\A c \in Clients : BlockedAfterCompletion(c) => ENABLED Internal)

\* C8, its last part alone: a blocked BlockingCancel whose callback has
\* completed is not left without any thread that can take a step.
C8_BlockedCallCanReturn ==
    \A c \in Clients : BlockedAfterCompletion(c) => ENABLED Internal
\* Every worker thread has terminated (or none was ever created).
WorkersTerminated(workers) == \A w \in Workers : workers[w].pc \in {"none", "exited"}

\* C9: when Stop() returns the state is STOPPED, for every caller: one that
\* finds the state past STARTED and does not block, one in IDLE, the one that
\* joins the workers, and every concurrent caller, which returns only after
\* the workers have been joined.
C9_StopReturnsStopped ==
    /\ [](\A c \in Clients :
            (cl[c].pc = "idle" /\ state_ > STARTED /\ StoppedCondition)
            => state_ = STOPPED /\ WorkersTerminated(wk))
    /\ [][\A c \in Clients :
            \/ cl[c].pc = "idle" /\ Stop(c) /\ cl'[c].pc = "idle"
            \/ cl[c].pc = "stop_join" /\ StopJoined(c)
            \/ cl[c].pc = "stop_wait" /\ StopWaitReturn(c)
            => state_' = STOPPED /\ WorkersTerminated(wk')]_vars

\* A concurrent caller of Stop is still blocked when the first caller has
\* joined the workers and set the state to STOPPED.
C9_Witness ==
    /\ state_ = STOPPED
    /\ \E c \in Clients : cl[c].pc = "stop_wait"
    /\ \A w \in Workers : wk[w].pc = "exited"
\* The number of steps worker w is away from termination once the scheduler
\* is past STARTED.
StepsToExit(w, workers) ==
    CASE workers[w].pc \in {"none", "exited"} -> 0
      [] workers[w].pc \in {"run", "awd_add"} -> 2
      [] OTHER -> 1

\* A step of a worker thread, or of a Stop call that has blocked.
StopStep ==
    \/ \E w \in Workers : FetchTask(w) \/ AwaitQueue(w) \/ AddListener(w)
                          \/ AwaitDeadline(w) \/ RemoveListener(w) \/ RunDone(w)
    \/ \E c \in Clients : StopJoined(c) \/ StopWaitReturn(c)

\* C10: Stop waits for in-flight callbacks. The state is STOPPED only when
\* every worker thread has terminated, so that it is STOPPING, never STOPPED,
\* while a worker runs a callback or has not exited. And Stop terminates when
\* the callbacks do: while a Stop call is in progress a worker or a Stop call
\* can take a step, and every step a worker takes then brings it closer to its
\* exit, which no other step undoes.
C10_StopWaitsForCallbacks ==
    /\ [](state_ = STOPPED => WorkersTerminated(wk))
    /\ []((state_ = STOPPING \/ \E c \in Clients : cl[c].pc \in {"stop_join", "stop_wait"})
          => ENABLED StopStep)
    /\ [][state_ = STOPPING
          => \A w \in Workers :
                /\ StepsToExit(w, wk') <= StepsToExit(w, wk)
                /\ wk'[w].pc # wk[w].pc => StepsToExit(w, wk') < StepsToExit(w, wk)]_vars

\* Stop has been called while a worker is running a callback: the caller is
\* waiting to join the workers and the state is STOPPING.
C10_Witness ==
    /\ state_ = STOPPING
    /\ \E c \in Clients : cl[c].pc = "stop_join"
    /\ \E w \in Workers : wk[w].pc = "run"
\* C11: once the state is STOPPING or STOPPED, FetchTask never returns a task
\* to a worker; a Schedule call made then still registers a task and returns
\* its (valid, fresh) handle, and that task is never executed.
C11_NoFetchAfterStopping ==
    [][/\ \A w \in Workers : Fetched(w) => state_ = STARTED /\ state_' = STARTED
       /\ (state_ > STARTED /\ handle_generator_' # handle_generator_)
          => /\ handle_generator_ # kInvalidHandle
             /\ handle_generator_' = handle_generator_ + 1
             /\ ~InReg(tasks_, handle_generator_)
             /\ InReg(tasks_', handle_generator_)
             /\ wk' = wk]_vars

\* The scheduler is stopping, a task scheduled in the past is at the head of
\* the queue, and a worker has gone through FetchTask and exited without it.
C11_Witness ==
    /\ state_ = STOPPING
    /\ HeadDue
    /\ \E w \in Workers : wk[w].pc = "exited"
\* The thread of worker w is created in this step.
ThreadCreated(w) ==
    wk[w].pc \in {"none", "exited"} /\ wk'[w].pc \notin {"none", "exited"}

\* C12: Start is idempotent. Workers are created in one step only, by a
\* Start call made in IDLE, which creates exactly num_workers of them and
\* leaves IDLE for good; before that step there is no worker; and a Start call
\* in any other state changes nothing.
C12_StartCreatesWorkersOnce ==
    /\ [](state_ = IDLE => workers_ = {} /\ \A w \in Workers : wk[w].pc = "none")
    /\ [](state_ # IDLE => ~ENABLED (Start /\ vars' # vars))
    /\ [][state_ # IDLE => state_' # IDLE]_vars
    /\ [][((\E w \in Workers : ThreadCreated(w)) \/ (workers_' # workers_ /\ workers_' # {}))
          => /\ state_ = IDLE /\ Start
             /\ Cardinality(workers_') = NumWorkers
             /\ Cardinality({w \in Workers : ThreadCreated(w)}) = NumWorkers
             /\ \A w \in workers_' : ThreadCreated(w)]_vars

\* Start has created the workers and one of them has since exited on Stop: a
\* later Start finds the scheduler stopped.
C12_Witness ==
    /\ state_ = STOPPED
    /\ Cardinality({w \in Workers : wk[w].pc = "exited"}) = NumWorkers
\* C13: the scheduler is in state STARTED when Start() returns, whatever
\* state it was in when Start was called: wherever Start can be called, the
\* state it leaves behind is STARTED.
C13_StartReturnsStarted ==
    CanLock => ENABLED (Start /\ state_' = STARTED)

\* No worker thread was ever created.
NeverStarted == \A w \in Workers : wk[w].pc = "none"

\* C14: Stop called in IDLE returns at once with the state STOPPED, and the
\* scheduler never runs a task afterwards: whatever is called later (Start,
\* Schedule*, clock advances), the state stays STOPPED and no worker exists.
C14_StopBeforeStartIsFinal ==
    /\ [][\A c \in Clients :
            (state_ = IDLE /\ cl[c].pc = "idle" /\ Stop(c))
            => state_' = STOPPED /\ cl'[c].pc = "idle"]_vars
    /\ [][(state_ = STOPPED /\ NeverStarted)
          => /\ state_' = STOPPED
             /\ workers_' = {}
             /\ \A w \in Workers : wk'[w].pc = "none"]_vars

\* The scheduler was stopped before it was started; every task has been
\* scheduled since, one of them is due at the head of the queue, and the
\* clock has been advanced.
C14_Witness ==
    /\ state_ = STOPPED
    /\ NeverStarted
    /\ handle_generator_ > MaxTasks
    /\ HeadDue
    /\ current_time_ = MaxTime

\* C15: the state changes only by IDLE->STARTED, STARTED->STOPPING,
\* STOPPING->STOPPED and IDLE->STOPPED, under the scheduler mutex; so it never
\* decreases, STOPPED is terminal and each transition happens at most once.
C15_StateTransitions ==
    [][state_' # state_
       => /\ <<state_, state_'>> \in {<<IDLE, STARTED>>, <<STARTED, STOPPING>>,
                                      <<STOPPING, STOPPED>>, <<IDLE, STOPPED>>}
          /\ state_' > state_
          /\ CanLock]_vars

\* The scheduler has gone through STARTED and STOPPING to STOPPED, every
\* worker has exited and every caller has returned.
C15_Witness ==
    /\ state_ = STOPPED
    /\ \A w \in Workers : wk[w].pc = "exited"
    /\ \A c \in Clients : cl[c].pc = "idle"
\* C16: WaitUntilAllWorkersAsleep returns Cancelled exactly when the state is
\* STOPPING or STOPPED at the moment it stops waiting; a call on an idle
\* scheduler returns OK without blocking; and a call that is blocked when the
\* scheduler leaves STARTED is released, with Cancelled.
C16_WaitStatus ==
    \A c \in Clients :
        /\ (CanLock /\ cl[c].pc \in {"idle", "wu_wait"} /\ AllAsleepCondition)
           => (WaitUntilAllWorkersAsleepStatus = "Cancelled"
               <=> state_ \in {STOPPING, STOPPED})
        /\ (CanLock /\ cl[c].pc = "idle" /\ state_ = IDLE)
           => AllAsleepCondition /\ WaitUntilAllWorkersAsleepStatus = "Ok"
        /\ (cl[c].pc = "wu_wait" /\ state_ # STARTED)
           => /\ AllAsleepCondition
              /\ WaitUntilAllWorkersAsleepStatus = "Cancelled"
              /\ ENABLED Internal
              /\ CanLock => ENABLED WaitUntilAllWorkersAsleepReturn(c)

\* Stop has been called while a caller is blocked in WaitUntilAllWorkersAsleep.
C16_Witness ==
    \E c \in Clients : cl[c].pc = "wu_wait" /\ state_ = STOPPING
\* C17: with a single worker, two one-shot tasks A and B with due times
\* ta < tb that are both in the queue before either starts are started in
\* that order: when the worker is handed a one-shot task B, no one-shot task A
\* with an earlier due time is still waiting to be started.
C17_OneWorkerRunsInDueOrder ==
    [][\A w \in Workers, a \in Handles :
          LET b == wk'[w].task IN
          ~ ( /\ Fetched(w)
              /\ InReg(tasks_, b) /\ tasks_[b].period = 0
              /\ a # b
              /\ InReg(tasks_, a) /\ tasks_[a].period = 0 /\ ~tasks_[a].cancelled
              /\ tasks_[a].due < tasks_[b].due )]_vars
\* The number of whole periods the claims ask a re-armed task to advance by:
\* max(1, ceil((T - D) / P)), the least k >= 1 with D + k*P >= T.
PeriodsToSkip(T, D, P) ==
    CHOOSE k \in 1..(MaxTime + 2) : (D + k * P >= T) /\ (k = 1 \/ D + (k - 1) * P < T)

\* C18: when a worker returns to FetchTask at clock time T with a non-cancelled
\* periodic task of due time D and period P > 0, the task is pushed back on the
\* queue with due time D + k*P, k = max(1, ceil((T - D) / P)); the new due time
\* is strictly greater than D and is >= T.
C18_PeriodicRearm ==
    [][\A w \in Workers :
          LET h == wk[w].task
              D == tasks_[h].due
              P == tasks_[h].period
              T == current_time_
          IN (/\ wk[w].pc = "fetch" /\ FetchTask(w)
              /\ InReg(tasks_, h) /\ ~tasks_[h].cancelled /\ P > 0)
             => /\ InQueue(queue_', h)
                /\ D # InfinitePast => tasks_'[h].due = D + PeriodsToSkip(T, D, P) * P
                /\ tasks_'[h].due > D
                /\ tasks_'[h].due >= T]_vars
\* C19: a periodic task runs at most once per period: two consecutive starts
\* of its callback are at least its period apart in clock time. (Stated for
\* the tasks scheduled with a finite due time.)
C19_OncePerPeriod ==
    [][\A w \in Workers :
          LET h == wk'[w].task IN
          (/\ Fetched(w)
           /\ InReg(tasks_, h) /\ tasks_[h].period > 0
           /\ obs.due[h] # InfinitePast
           /\ obs.runs[h] > 0)
          => current_time_' - obs.start[h] >= tasks_[h].period]_vars
\* C20: a periodic task scheduled at due time D (not already past) with period
\* P has been executed at least floor((T - D) / P) + 1 times once the clock has
\* been advanced to T >= D and WaitUntilAllWorkersAsleep has returned OK.
\* (Taken where the clock is not being advanced and every worker is blocked
\* with its wait condition false.)
C20_PeriodicRunCount ==
    \A c \in Clients, h \in Handles :
        LET D == obs.due[h]
            P == tasks_[h].period
            T == current_time_
        IN ( /\ ReturnsOk(c) /\ state_ = STARTED /\ adv.pc = "idle"
             /\ \A w \in Workers : Asleep(w)
             /\ InReg(tasks_, h) /\ ~tasks_[h].cancelled /\ P > 0
             /\ D # InfinitePast /\ obs.at[h] <= D /\ T >= D )
           => obs.runs[h] >= ((T - D) \div P) + 1
\* This step is a Schedule* call.
Scheduled == handle_generator_' # handle_generator_

\* C21: handles are unique and never zero. The generator starts at 1 and only
\* grows; every handle held anywhere has been issued (it is below the
\* generator); a Schedule* call registers exactly one task, under the
\* generator's current value, which is not kInvalidHandle and is the handle of
\* no task scheduled before, completed or cancelled ones included.
C21_HandlesUnique ==
    /\ [](/\ handle_generator_ >= FirstHandle
          /\ FirstHandle > kInvalidHandle
          /\ \A h \in Handles :
                (InReg(tasks_, h) \/ InQueue(queue_, h) \/ h \in cancel_true
                 \/ \E w \in Workers : wk[w].task = h)
                => h < handle_generator_)
    /\ [][handle_generator_' >= handle_generator_]_vars
    /\ [][Scheduled
          => /\ CanLock
             /\ {h \in Handles : ~InReg(tasks_, h) /\ InReg(tasks_', h)} = {handle_generator_}
             /\ \A h \in Handles : InReg(tasks_, h) => tasks_'[h].inreg /\ h # handle_generator_
             /\ handle_generator_' > handle_generator_]_vars

C21_Witness ==
    /\ handle_generator_ = FirstHandle + 2
    /\ ~InReg(tasks_, FirstHandle) /\ FirstHandle \in cancel_true
    /\ InReg(tasks_, FirstHandle + 1)
\* C22: a thread blocked in AwaitWithDeadline stays registered as a listener
\* until the call returns, so that every AdvanceTime made meanwhile notifies
\* it: its listener is in listeners_, or in the set an AdvanceTime in progress
\* is about to notify.
C22_ListenerStaysRegistered ==
    \A w \in Workers :
        wk[w].pc = "awd_wait" => (w \in listeners_ \/ w \in adv.pending)
\* Worker w is inside AwaitWithDeadline, registered, blocked or about to return.
InDeadlineWait(w) == wk[w].pc \in {"awd_wait", "awd_remove"}

\* The AwaitWithDeadline call of worker w returns in this step.
DeadlineWaitReturns(w) ==
    InDeadlineWait(w) /\ (AwaitDeadline(w) \/ RemoveListener(w))

\* The AwaitWithDeadline call of worker w begins in this step (its TimeNow).
DeadlineWaitBegins(w) == wk[w].pc # "awd_add" /\ wk'[w].pc = "awd_add"

\* C23: AwaitWithDeadline returns with the caller's mutex held and its result
\* is the condition's value then; it returns false only if the time observed
\* by the waiter, and so the virtual time, is >= deadline; it never returns
\* with the condition false and the virtual time below the deadline; and a
\* call made when the virtual time is >= deadline already does not block.
C23_AwaitWithDeadlineResult ==
    [][\A w \in Workers :
          /\ DeadlineWaitReturns(w)
             => /\ mutex_ \in {0, w} /\ ~crashed
                /\ ~TaskDueCondition
                   => wk[w].cur >= wk[w].deadline /\ current_time_ >= wk[w].deadline
                /\ ~(~TaskDueCondition /\ current_time_ < wk[w].deadline)
          /\ DeadlineWaitBegins(w)
             => /\ wk'[w].cur = current_time_'
                /\ mutex_' = w
          /\ (wk[w].pc = "awd_add" /\ wk'[w].pc = "awd_wait")
             => wk[w].cur < wk[w].deadline /\ ~TaskDueCondition
          /\ (wk[w].pc = "awd_add" /\ wk'[w].pc # "awd_add")
             => wk'[w].pc \in {"awd_wait", "awd_remove"}]_vars

C23_Witness ==
    \E w \in Workers :
        /\ wk[w].pc = "awd_wait" /\ CanLock
        /\ ~TaskDueCondition
        /\ wk[w].cur >= wk[w].deadline
        /\ wk[w].deadline > 0
\* C24: the virtual time never decreases, whatever the arguments of the
\* SetTime and AdvanceTime calls.
C24_TimeNeverDecreases == [][current_time_' >= current_time_]_vars
\* C25: SetTime(t) with t earlier than the virtual time halts the process: the
\* time is not changed, no listener is notified or removed, and nothing runs
\* afterwards; SetTime(t) with t equal to the virtual time is accepted.
C25_SetTimeBackwardFailsFast ==
    /\ [][\A t \in Times :
            (SetTime(t) /\ t < current_time_)
            => /\ crashed'
               /\ current_time_' = current_time_
               /\ listeners_' = listeners_ /\ adv' = adv /\ wk' = wk]_vars
    /\ [][\A t \in Times : (SetTime(t) /\ t >= current_time_) => ~crashed' /\ current_time_' = t]_vars
    /\ []((~crashed /\ adv.pc = "idle")
          => /\ ENABLED (SetTime(current_time_) /\ ~crashed' /\ current_time_' = current_time_)
             /\ ~ENABLED (SetTime(current_time_) /\ crashed'))
    /\ [](crashed => ~ENABLED NextClock)

C25_Witness ==
    /\ crashed /\ current_time_ > 0
    /\ queue_ # <<>> /\ listeners_ # {}
\* A step inside the critical section of the clock's mutex made by a thread
\* that called SetTime or AdvanceTime.
ClockCall ==
    \/ \E d \in (0 - MaxTime)..MaxTime : AdvanceTime(d)
    \/ \E t \in Times : SetTime(t)

\* A listener is run: it takes the scheduler mutex.
ListenerRun == \E l \in Workers, lands \in BOOLEAN : Notify(l, lands)

\* C26 as stated: the clock's mutex and the scheduler mutex are never held
\* together: no thread changes the listener set, which the clock's mutex
\* guards, while it holds the scheduler mutex.
C26_MutexesNeverHeldTogether ==
    [][\A w \in Workers :
          ~ (/\ mutex_ = w
             /\ AddListener(w) \/ RemoveListener(w)
             /\ listeners_' # listeners_)]_vars

\* C26 as amended: the scheduler mutex is never acquired by a thread that
\* holds the clock's mutex. A step inside the clock's critical section leaves
\* everything the scheduler mutex guards unchanged, and a listener runs
\* outside it: it takes the scheduler mutex, which must be free, and leaves
\* what the clock's mutex guards unchanged.
C26_ClockMutexNeverHeldForSchedulerMutex ==
    [][/\ ClockCall
          => UNCHANGED <<state_, tasks_, queue_, task_due_, workers_, wk, mutex_>>
       /\ ListenerRun
          => CanLock /\ UNCHANGED <<current_time_, listeners_>>]_vars

C26_Witness ==
    /\ adv.pc = "notify"
    /\ \E w \in Workers : mutex_ = w /\ wk[w].pc = "awd_add" /\ w \notin adv.pending
\* C27: a worker never pops from an empty queue: whenever the deadline wait of
\* FetchTask has returned and the scheduler is not stopping, so that the
\* worker goes on to pop the head, the queue is not empty.
C27_NeverPopsEmptyQueue ==
    [][\A w \in Workers :
          DeadlineWaitReturns(w) /\ ~AbortedAfterDeadline => queue_ # <<>>]_vars
\* C28: after every operation that changes the queue (ScheduleInternal, the
\* removal by Cancel, the pop by a worker, the periodic re-queue), when the
\* scheduler mutex is released task_due_ equals is_task_due(): it is true iff
\* the queue is not empty, its head is not cancelled and the head's due time
\* is at most the clock's current time.
C28_TaskDueIsFresh ==
    [][queue_' # queue_ /\ mutex_' = 0
          => task_due_' = is_task_due(tasks_', queue_', current_time_')]_vars
\* What due_time() can return through a TaskRef of the queue: the due time of
\* the task, or anything when the task has been erased from the registry and
\* the TaskRef dangles (the freed node may have been overwritten or reused).
DueTimeRead(ts, h) == IF ts[h].inreg THEN {ts[h].due} ELSE DueTimes

\* The queue array is a min-heap on due_time: no element is due before its parent.
IsMinHeap(ts, q) ==
    \A i \in 2..Len(q) :
       \A child \in DueTimeRead(ts, q[i]), parent \in DueTimeRead(ts, q[i \div 2]) :
          child >= parent

\* C29: whenever the scheduler mutex is not held the queue array is a min-heap
\* on due_time, after any sequence of schedule, cancel at an arbitrary index,
\* pop by a worker and periodic re-queue.
C29_QueueIsMinHeap == mutex_ = 0 => IsMinHeap(tasks_, queue_)

\* C30: whenever the scheduler mutex is not held, every registered task with
\* a non-null backlink is held by exactly the queue slot its backlink names,
\* and every queue slot holds a registered task whose backlink is that slot.
C30_BacklinksConsistent ==
    mutex_ = 0 =>
       /\ \A h \in Handles :
             InReg(tasks_, h) /\ tasks_[h].ref # 0 =>
                /\ tasks_[h].ref \in 1..Len(queue_)
                /\ \A i \in 1..Len(queue_) : queue_[i] = h <=> i = tasks_[h].ref
       /\ \A i \in 1..Len(queue_) :
             InReg(tasks_, queue_[i]) /\ tasks_[queue_[i]].ref = i
\* The queue slots that refer to task h, and the workers that hold it: the
\* worker has popped it and runs it, or has run it and has not yet re-queued
\* or erased it in its next FetchTask.
SlotsOf(q, h) == {i \in 1..Len(q) : q[i] = h}
HeldBy(h) == {w \in Workers : wk[w].task = h /\ wk[w].pc \in {"run", "fetch"}}

\* C31: single ownership: each registered task is either in the queue exactly
\* once or held by exactly one worker, never both and never by two workers,
\* and the registered tasks with a null backlink are exactly those held by a
\* worker.
C31_SingleOwnership ==
    mutex_ = 0 =>
       \A h \in Handles : InReg(tasks_, h) =>
          /\ \/ Cardinality(SlotsOf(queue_, h)) = 1 /\ HeldBy(h) = {}
             \/ SlotsOf(queue_, h) = {} /\ Cardinality(HeldBy(h)) = 1
          /\ tasks_[h].ref = 0 <=> HeldBy(h) # {}
\* Cancel or BlockingCancel is called with the handle of a queued task.
CancelsQueued(h) ==
    /\ InReg(tasks_, h) /\ tasks_[h].ref # 0
    /\ Cancel(h) \/ \E c \in Clients : BlockingCancel(c, h)

\* C32: Cancel(h) of a queued task removes exactly the task with handle h:
\* the queue entry that goes is h's, whatever the due times of the other
\* queued tasks are; afterwards no slot refers to the erased task and no other
\* task has lost its queue entry.
C32_CancelRemovesItsOwnEntry ==
    [][\A h \in Handles : CancelsQueued(h) =>
          /\ {queue_'[i] : i \in 1..Len(queue_')} = {queue_[i] : i \in 1..Len(queue_)} \ {h}
          /\ Len(queue_') = Len(queue_) - 1
          /\ ~InReg(tasks_', h)]_vars
\* C33: cancelling a queued task leaves every other task unchanged: each other
\* registered task stays in the registry with the same due time, period and
\* cancelled flag, and each other queued task stays in the queue, also when
\* it has the same due time as the cancelled task.
C33_CancelFrame ==
    [][\A h \in Handles : CancelsQueued(h) =>
          \A g \in Handles \ {h} : InReg(tasks_, g) =>
             /\ InReg(tasks_', g)
             /\ tasks_'[g].due = tasks_[g].due
             /\ tasks_'[g].period = tasks_[g].period
             /\ tasks_'[g].cancelled = tasks_[g].cancelled
             /\ InQueue(queue_, g) => InQueue(queue_', g) /\ tasks_'[g].ref # 0]_vars
\* C34: a listener is never run after the AwaitWithDeadline call that
\* registered it has returned: no listener that AdvanceTime or SetTime runs
\* belongs to a waiter that has already left its wait.
C34_NoListenerRunsAfterReturn ==
    [][\A l \in Workers :
          (\E lands \in BOOLEAN : Notify(l, lands)) => l \notin adv.stale]_vars
\* C35: no lost wake-up at entry: when the virtual time has reached the
\* deadline by the time the thread entering AwaitWithDeadline registers its
\* listener, after its initial TimeNow read, the call does not block waiting
\* for a further time advance.
C35_NoLostWakeupAtEntry ==
    [][\A w \in Workers :
          AddListener(w) /\ current_time_ >= wk[w].deadline
             => wk'[w].pc # "awd_wait"]_vars
\* A listener run by AdvanceTime or SetTime stores the new time into the time
\* that the waiter `l` tests in its condition.
ListenerStores(l) ==
    /\ wk'[l].cur # wk[l].cur
    /\ (\E lands \in BOOLEAN : Notify(l, lands)) \/ TimeListenerStore(l)

\* C36: a notified listener updates the waiter's cached time only while it
\* holds the mutex passed to AwaitWithDeadline: when the store happens no
\* other thread holds that mutex.
C36_ListenerStoresUnderMutex ==
    [][\A l \in Workers : ListenerStores(l) => mutex_ = 0]_vars
\* Worker w is blocked in one of the two waits of FetchTask.
InFetchTaskWait(w) == wk[w].pc \in {"await_queue", "awd_wait"}

\* C37: as observed by any thread holding the scheduler mutex, that is
\* whenever the worker itself does not hold it, a worker's sleeping flag is
\* true if and only if the worker is blocked in one of the waits inside
\* FetchTask; it is false before the worker's first FetchTask call, while the
\* worker runs a callback and after the worker has exited.
C37_SleepingFlag ==
    \A w \in Workers :
       /\ mutex_ # w => (wk[w].sleeping <=> InFetchTaskWait(w))
       /\ wk[w].pc \in {"none", "fetch", "run", "exited"} => ~wk[w].sleeping /\ mutex_ # w

C37_Witness ==
    \E w1, w2 \in Workers :
       /\ mutex_ = w2
       /\ wk[w1].pc = "awd_wait" /\ wk[w1].sleeping
       /\ \E c \in Clients : cl[c].pc # "idle"
\* What cancelled() can return through a TaskRef of the queue: the flag of the
\* task, or anything when the task has been erased and the TaskRef dangles.
CancelledRead(ts, h) == IF ts[h].inreg THEN {ts[h].cancelled} ELSE BOOLEAN

\* C38: no task in the queue ever has its cancelled flag set: whenever the
\* scheduler mutex is not held, a cancelled task of the registry is not queued
\* but held by a worker, and no queue slot reads as cancelled, so that the
\* pop of FetchTask never finds a cancelled task.
C38_NoCancelledTaskQueued ==
    mutex_ = 0 =>
       /\ \A i \in 1..Len(queue_) : \A c \in CancelledRead(tasks_, queue_[i]) : ~c
       /\ \A h \in Handles : InReg(tasks_, h) /\ tasks_[h].cancelled =>
             ~InQueue(queue_, h) /\ HeldBy(h) # {}
\* C39: the lock order is free of deadlock: no thread tries to acquire the
\* scheduler mutex while it holds the clock's mutex.  SetTime and AdvanceTime
\* never wait for the scheduler mutex, whoever holds it; the listeners are
\* run only after the clock's critical section is over; and a thread that
\* holds the scheduler mutex and needs the clock's mutex, to register or to
\* remove its listener, is never kept waiting by a clock call in progress.
C39_LockOrderDeadlockFree ==
    /\ [](~crashed /\ adv.pc = "idle"
             => ENABLED SetTime(current_time_) /\ ENABLED AdvanceTime(0))
    /\ [][ListenerRun => adv.pc = "notify" /\ listeners_' = listeners_]_vars
    /\ [](\A w \in Workers :
             /\ ~crashed /\ wk[w].pc = "awd_add" => ENABLED AddListener(w)
             /\ ~crashed /\ wk[w].pc = "awd_remove" => ENABLED RemoveListener(w))

C39_Witness ==
    /\ adv.pc = "notify"
    /\ \E w \in Workers : mutex_ = w /\ wk[w].pc = "awd_remove" /\ w \in adv.pending
====
